---------------------------- MODULE Spec2Model ----------------------------
(***************************************************************************)
(* A model of prediction_helper.py: the artifact loader, the module-level  *)
(* loading of the four artifacts, the medical-history risk scorer, the     *)
(* feature encoder, the scaling stage and predict.                         *)
(*                                                                         *)
(* Strings that the code takes apart (the medical history) are sequences   *)
(* of atoms: a word (held as one atom, with its case), the blank " " and   *)
(* the ampersand "&".  Every Python string in the universe has one such    *)
(* representation.  A Python float total/14 is the pair [num, den].        *)
(***************************************************************************)
EXTENDS Integers, Sequences, FiniteSets, TLC

VARIABLES
    fs,               \* file system: path -> "absent" | "partial" | "corrupt" | <content>
    dirs,             \* the directories that exist
    pc,               \* position of the importing process in the module body
    artifacts,        \* the module globals model_young .. scaler_rest: name -> <<>> | <<content>>
    loads,            \* name -> number of load_or_download calls made for that global
    loadCall,         \* the last load_or_download call: <<>> | <<record>>
    input_dict,       \* the mapping the caller holds and passes to predict (items in order)
    edits,            \* number of assignments/deletions the caller made to input_dict
    call,             \* the last predict call: <<>> | <<record>>; `again` says the
                      \* call before it was made with the same mapping
    medical_history,  \* argument of a direct calculate_normalized_risk call
    risk              \* its result: <<>> | <<[num, den]>>

vars == <<fs, dirs, pc, artifacts, loads, loadCall, input_dict, edits, call,
          medical_history, risk>>

-----------------------------------------------------------------------------
(* Bounds of the model *)

\* longest medical-history string (in atoms) that SpecRisk enumerates
MaxLen == 5
\* most assignments/deletions a caller applies to a request before calling predict
MaxEdits == 2
\* greatest Age a caller supplies
MaxAge == 26

-----------------------------------------------------------------------------
(* Strings *)

Blank == " "
Amp == "&"

\* str.lower() on one atom
LowerAtom(a) ==
    CASE a = "Heart Disease" -> "heart disease"
      [] a = "Diabetes" -> "diabetes"
      [] a = "High Blood Pressure" -> "high blood pressure"
      [] a = "Thyroid" -> "thyroid"
      [] a = "No Disease" -> "no disease"
      [] a = "None" -> "none"
      [] OTHER -> a

\* str.lower()
Lower(s) == [i \in 1..Len(s) |-> LowerAtom(s[i])]

\* the literal delimiter " & "
Delimiter == <<Blank, Amp, Blank>>

\* index of the first occurrence of Delimiter in s at or after position 1, or 0
FindDelimiter(s) ==
    LET hits == {i \in 1..(Len(s) - 2) : SubSeq(s, i, i + 2) = Delimiter}
    IN  IF hits = {} THEN 0 ELSE CHOOSE i \in hits : \A j \in hits : i <= j

\* str.split(" & "): leftmost, non-overlapping; always at least one piece
RECURSIVE Split(_)
Split(s) ==
    LET i == FindDelimiter(s)
    IN  IF i = 0 THEN <<s>>
        ELSE <<SubSeq(s, 1, i - 1)>> \o Split(SubSeq(s, i + 3, Len(s)))

\* str.strip(): drops leading and trailing blanks
RECURSIVE Strip(_)
Strip(s) ==
    IF s = <<>> THEN s
    ELSE IF Head(s) = Blank THEN Strip(Tail(s))
    ELSE IF s[Len(s)] = Blank THEN Strip(SubSeq(s, 1, Len(s) - 1))
    ELSE s

-----------------------------------------------------------------------------
(* Risk score calculation *)

max_score == 14

\* risk_scores.get(disease, 0)
RiskWeight(token) ==
    CASE token = <<"diabetes">> -> 6
      [] token = <<"heart disease">> -> 8
      [] token = <<"high blood pressure">> -> 6
      [] token = <<"thyroid">> -> 5
      [] token = <<"no disease">> -> 0
      [] token = <<"none">> -> 0
      [] OTHER -> 0

RECURSIVE SumWeights(_)
SumWeights(diseases) ==
    IF diseases = <<>> THEN 0
    ELSE RiskWeight(Strip(Head(diseases))) + SumWeights(Tail(diseases))

\* the split without the lower-casing
DiseasesCaseSensitive(history) == Split(history)

\* medical_history.lower().split(" & ")
Diseases(history) == Split(Lower(history))

calculate_normalized_risk(history) ==
    [num |-> SumWeights(Diseases(history)), den |-> max_score]

-----------------------------------------------------------------------------
(* Helper to load local/download models *)

\* A path is the sequence of its components; a url argument is <<>> (None)
\* or <<s>> (the string s).
NoUrl == <<>>

\* os.path.dirname(path)
Dirname(path) == SubSeq(path, 1, Len(path) - 1)

\* the directories os.makedirs(d, exist_ok=True) makes sure exist
MadeDirs(d) == {SubSeq(d, 1, n) : n \in 1..Len(d)}

\* an existence test that takes an incomplete file for a missing one
ExistsComplete(fsys, path) == fsys[path] \notin {"absent", "partial"}

\* os.path.exists(path)
Exists(fsys, path) == fsys[path] # "absent"

\* `if url is not None:` - the empty string passes
NotNone(url) == url # NoUrl

\* `if url:` - None and the empty string are both false
Truthy(url) == url # NoUrl /\ url[1] # ""

\* what a completed urlretrieve leaves at the local path
RemoteContent(url) == "content of " \o url[1]

\* the outcomes of urllib.request.urlretrieve: the whole body written, the
\* connection refused before the local file is opened, or the transfer cut
\* after the local file was opened and partly written
NetOutcomes == {"complete", "connect_error", "truncated"}

\* joblib.load(path) after the steps `done`
JoblibLoad(fsys, ds, path, done) ==
    IF fsys[path] \in {"partial", "corrupt"}
    THEN [fs |-> fsys, dirs |-> ds, steps |-> Append(done, "joblib.load"),
          outcome |-> "DeserializationError", names |-> <<>>, value |-> <<>>]
    ELSE [fs |-> fsys, dirs |-> ds, steps |-> Append(done, "joblib.load"),
          outcome |-> "returned", names |-> <<>>, value |-> <<fsys[path]>>]

\* urllib.request.urlretrieve(url, path) followed by the rest of the function
Download(fsys, ds, path, url, net) ==
    LET done == <<"makedirs", "urlretrieve">>
    IN  CASE net = "connect_error" ->
               [fs |-> fsys, dirs |-> ds, steps |-> done,
                outcome |-> "URLError", names |-> <<>>, value |-> <<>>]
          [] net = "truncated" ->
               [fs |-> [fsys EXCEPT ![path] = "partial"], dirs |-> ds, steps |-> done,
                outcome |-> "ContentTooShortError", names |-> <<>>, value |-> <<>>]
          [] OTHER ->
               JoblibLoad([fsys EXCEPT ![path] = RemoteContent(url)], ds, path, done)

\* load_or_download(path, url) on the file system (fsys, ds), the network
\* answering `net` if it is asked
LoadOrDownload(fsys, ds, path, url, net) ==
    IF ~Exists(fsys, path)
    THEN IF Truthy(url)
         THEN IF Dirname(path) = <<>>
              THEN \* os.makedirs("") raises FileNotFoundError
                   [fs |-> fsys, dirs |-> ds, steps |-> <<"makedirs">>,
                    outcome |-> "FileNotFoundError", names |-> <<>>, value |-> <<>>]
              ELSE Download(fsys, ds \cup MadeDirs(Dirname(path)), path, url, net)
         ELSE [fs |-> fsys, dirs |-> ds, steps |-> <<>>,
               outcome |-> "FileNotFoundError", names |-> path, value |-> <<>>]
    ELSE JoblibLoad(fsys, ds, path, <<>>)

-----------------------------------------------------------------------------
(* Load models & scalers *)

\* the module globals, in the order the module body assigns them
ArtifactNames == <<"model_young", "model_rest", "scaler_young", "scaler_rest">>

PathOf(name) == <<"artifacts", name \o ".joblib">>

ArtifactPaths == {PathOf(ArtifactNames[i]) : i \in 1..Len(ArtifactNames)}

\* what a well-formed artifact file may hold; a scaler bundle's cols_to_scale
\* is part of the file, so two bundles are told apart by it
GoodContents(name) ==
    CASE name = "model_young" -> {"model_young.fit"}
      [] name = "model_rest" -> {"model_rest.fit"}
      [] name = "scaler_young" -> {"scaler_young.cols6", "scaler_young.cols5"}
      [] name = "scaler_rest" -> {"scaler_rest.cols6"}

\* the step of the module body after the load of ArtifactNames[i]
AfterLoad(i) == IF i = Len(ArtifactNames) THEN "ready" ELSE ArtifactNames[i + 1]

\* a module body that goes on to the next line when a load fails
LoadArtifactLenient(i) ==
    LET name == ArtifactNames[i]
        r == LoadOrDownload(fs, dirs, PathOf(name), NoUrl, "complete")
    IN  /\ pc = name
        /\ fs' = r.fs
        /\ dirs' = r.dirs
        /\ loads' = [loads EXCEPT ![name] = @ + 1]
        /\ loadCall' = <<[path |-> PathOf(name), url |-> NoUrl, existed |-> Exists(fs, PathOf(name)),
                          steps |-> r.steps, outcome |-> r.outcome, names |-> r.names]>>
        /\ artifacts' = [artifacts EXCEPT ![name] = r.value]
        /\ pc' = AfterLoad(i)
        /\ UNCHANGED <<input_dict, edits, call, medical_history, risk>>

\* one assignment of the module body: <name> = load_or_download("artifacts/<name>.joblib")
LoadArtifact(i) ==
    LET name == ArtifactNames[i]
        r == LoadOrDownload(fs, dirs, PathOf(name), NoUrl, "complete")
    IN  /\ pc = name
        /\ fs' = r.fs
        /\ dirs' = r.dirs
        /\ loads' = [loads EXCEPT ![name] = @ + 1]
        /\ loadCall' = <<[path |-> PathOf(name), url |-> NoUrl, existed |-> Exists(fs, PathOf(name)),
                          steps |-> r.steps, outcome |-> r.outcome, names |-> r.names]>>
        /\ IF r.outcome = "returned"
           THEN /\ artifacts' = [artifacts EXCEPT ![name] = r.value]
                /\ pc' = AfterLoad(i)
           ELSE /\ artifacts' = artifacts
                /\ pc' = "aborted"
        /\ UNCHANGED <<input_dict, edits, call, medical_history, risk>>

-----------------------------------------------------------------------------
(* Mappings and frames *)

\* A dict is the sequence of its items <<key, value>> in insertion order.
HasKey(d, k) == \E i \in 1..Len(d) : d[i][1] = k

\* d[k], for a key that is present
Lookup(d, k) == d[CHOOSE i \in 1..Len(d) : d[i][1] = k][2]

\* d[k] = v: an existing key keeps its place, a new key goes last
Store(d, k, v) ==
    IF HasKey(d, k)
    THEN [i \in 1..Len(d) |-> IF d[i][1] = k THEN <<k, v>> ELSE d[i]]
    ELSE Append(d, <<k, v>>)

\* del d[k]
Remove(d, k) == SelectSeq(d, LAMBDA item : item[1] # k)

\* A one-row DataFrame is the sequence of its columns <<name, cell>>.  A cell
\* is the number num/den together with the scalers whose transform was
\* applied to it, oldest first (the transform itself belongs to the artifact).
Cell(n) == [num |-> n, den |-> 1, scaled |-> <<>>]

Columns(df) == [i \in 1..Len(df) |-> df[i][1]]

\* `name in df.columns`
HasCol(df, name) == \E i \in 1..Len(df) : df[i][1] = name

\* df[name] = cell: an existing column is overwritten, a new one is added last
SetCol(df, name, cell) ==
    IF HasCol(df, name)
    THEN [i \in 1..Len(df) |-> IF df[i][1] = name THEN <<name, cell>> ELSE df[i]]
    ELSE Append(df, <<name, cell>>)

\* df[name]
GetCol(df, name) == df[CHOOSE i \in 1..Len(df) : df[i][1] = name][2]

\* df.drop(name, axis="columns", inplace=True)
DropCol(df, name) == SelectSeq(df, LAMBDA c : c[1] # name)

-----------------------------------------------------------------------------
(* Preprocessing input *)

expected_columns ==
    << "age", "number_of_dependants", "income_lakhs", "insurance_plan",
       "genetical_risk", "normalized_risk_score",
       "gender_Male", "region_Northwest", "region_Southeast", "region_Southwest",
       "marital_status_Unmarried", "bmi_category_Obesity", "bmi_category_Overweight",
       "bmi_category_Underweight", "smoking_status_Occasional", "smoking_status_Regular",
       "employment_status_Salaried", "employment_status_Self-Employed" >>

\* insurance_plan_encoding.get(value, 1)
insurance_plan_encoding(value) ==
    CASE value = "Bronze" -> 1
      [] value = "Silver" -> 2
      [] value = "Gold" -> 3
      [] OTHER -> 1

\* a frame kept between calls: the one the last call returned, if any
StaleFrame ==
    IF call # <<>> /\ call[1].frame # <<>>
    THEN call[1].frame
    ELSE [i \in 1..Len(expected_columns) |-> <<expected_columns[i], Cell(0)>>]

\* pd.DataFrame(0, columns=expected_columns, index=[0])
NewFrame == [i \in 1..Len(expected_columns) |-> <<expected_columns[i], Cell(0)>>]

\* one turn of the loop over input_dict.items()
FillItem(df, key, value) ==
    IF key = "Gender" /\ value = "Male" THEN
        SetCol(df, "gender_Male", Cell(1))
    ELSE IF key = "Region" THEN
        SetCol(df, "region_" \o value,
               IF HasCol(df, "region_" \o value) THEN Cell(1) ELSE Cell(0))
    ELSE IF key = "Marital Status" /\ value = "Unmarried" THEN
        SetCol(df, "marital_status_Unmarried", Cell(1))
    ELSE IF key = "BMI Category" /\ HasCol(df, "bmi_category_" \o value) THEN
        SetCol(df, "bmi_category_" \o value, Cell(1))
    ELSE IF key = "Smoking Status" /\ HasCol(df, "smoking_status_" \o value) THEN
        SetCol(df, "smoking_status_" \o value, Cell(1))
    ELSE IF key = "Employment Status" /\ HasCol(df, "employment_status_" \o value) THEN
        SetCol(df, "employment_status_" \o value, Cell(1))
    ELSE IF key = "Insurance Plan" THEN
        SetCol(df, "insurance_plan", Cell(insurance_plan_encoding(value)))
    ELSE IF key = "Age" THEN
        SetCol(df, "age", Cell(value))
    ELSE IF key = "Number of Dependants" THEN
        SetCol(df, "number_of_dependants", Cell(value))
    ELSE IF key = "Income in Lakhs" THEN
        SetCol(df, "income_lakhs", Cell(value))
    ELSE IF key = "Genetical Risk" THEN
        SetCol(df, "genetical_risk", Cell(value))
    ELSE df

\* the whole loop `for key, value in input_dict.items()`, from the frame df
RECURSIVE FillFrame(_, _)
FillFrame(df, items) ==
    IF items = <<>> THEN df
    ELSE FillFrame(FillItem(df, Head(items)[1], Head(items)[2]), Tail(items))

-----------------------------------------------------------------------------
(* Handle scaling *)

AgeLimit == 25

\* scaler_object["cols_to_scale"] of a loaded bundle
cols_to_scale(bundle) ==
    IF bundle \in {"scaler_young.cols5"}
    THEN <<"age", "number_of_dependants", "income_level", "income_lakhs", "insurance_plan">>
    ELSE <<"age", "number_of_dependants", "income_level", "income_lakhs", "insurance_plan",
           "genetical_risk">>

\* `scaler_young if age <= 25 else scaler_rest`, as the name of the global
ScalerFor(age) == IF age <= AgeLimit THEN "scaler_young" ELSE "scaler_rest"

\* df[cols] = scaler.transform(df[cols]) for the bundle `bundle`
RECURSIVE Transform(_, _, _)
Transform(df, cols, bundle) ==
    IF cols = <<>> THEN df
    ELSE LET old == GetCol(df, Head(cols))
         IN  Transform(SetCol(df, Head(cols), [old EXCEPT !.scaled = Append(@, bundle)]),
                       Tail(cols), bundle)

handle_scaling(age, df, arts) ==
    LET bundle == arts[ScalerFor(age)][1]
        withDummy == SetCol(df, "income_level", Cell(0))
    IN  DropCol(Transform(withDummy, cols_to_scale(bundle), bundle), "income_level")

\* preprocess_input(input_dict) with the module globals arts: the frame it
\* returns, or the key whose lookup raised KeyError
preprocess_input(d, arts) ==
    LET df == FillFrame(NewFrame, d)
    IN  IF ~HasKey(d, "Medical History")
        THEN [outcome |-> "KeyError", key |-> "Medical History", scaler |-> "", frame |-> <<>>]
        ELSE LET withRisk ==
                    SetCol(df, "normalized_risk_score",
                           LET r == calculate_normalized_risk(Lookup(d, "Medical History"))
                           IN  [num |-> r.num, den |-> r.den, scaled |-> <<>>])
             IN  IF ~HasKey(d, "Age")
                 THEN [outcome |-> "KeyError", key |-> "Age", scaler |-> "", frame |-> <<>>]
                 ELSE [outcome |-> "returned", key |-> "",
                       scaler |-> ScalerFor(Lookup(d, "Age")),
                       frame |-> handle_scaling(Lookup(d, "Age"), withRisk, arts)]

-----------------------------------------------------------------------------
(* Prediction function *)

\* the model chosen with `<` in place of `<=`
ModelForStrict(age) == IF age < AgeLimit THEN "model_young" ELSE "model_rest"

\* `model_young if input_dict["Age"] <= 25 else model_rest`, as the name of the global
ModelFor(age) == IF age <= AgeLimit THEN "model_young" ELSE "model_rest"

\* How model.predict(input_df) can end.  The estimators were fitted on the 18
\* columns of expected_columns; what a fitted estimator does with a frame of
\* other columns (raise on the feature mismatch, or read what it knows) is
\* decided by the artifact and its library, which the source does not fix.
InferenceOutcomes(frame) ==
    IF Columns(frame) = expected_columns THEN {"returned"} ELSE {"returned", "ValueError"}

\* a predict that looks the keys up with defaults and always goes on to the model
predictWithDefaults(d, arts, inf) ==
    LET age == IF HasKey(d, "Age") THEN Lookup(d, "Age") ELSE 0
        full == Store(IF HasKey(d, "Medical History") THEN d
                      ELSE Store(d, "Medical History", <<"none">>), "Age", age)
        pre == preprocess_input(full, arts)
    IN  [outcome |-> inf, key |-> "", scaler |-> pre.scaler, model |-> ModelFor(age),
         frame |-> pre.frame, inferred |-> TRUE]

\* predict(input_dict) with the module globals arts, model.predict ending in `inf`
predict(d, arts, inf) ==
    LET pre == preprocess_input(d, arts)
    IN  IF pre.outcome # "returned"
        THEN [outcome |-> pre.outcome, key |-> pre.key, scaler |-> "", model |-> "",
              frame |-> <<>>, inferred |-> FALSE]
        ELSE [outcome |-> inf, key |-> "", scaler |-> pre.scaler,
              model |-> ModelFor(Lookup(d, "Age")),
              frame |-> pre.frame, inferred |-> TRUE]

-----------------------------------------------------------------------------
(* The caller of predict *)

Ages == (AgeLimit - 1)..MaxAge

Histories ==
    { <<"Diabetes", Blank, Amp, Blank, "High Blood Pressure">>,
      <<"Heart Disease", Blank, Amp, Blank, "Heart Disease">>,
      <<"unknown condition">> }

\* the values a caller gives each key; "Notes" is a key the encoder does not know
ValuesOf(key) ==
    CASE key = "Age" -> Ages
      [] key = "Medical History" -> Histories
      [] key = "Gender" -> {"Male", "Female"}
      [] key = "Region" -> {"Northwest", "Southeast", "Northeast"}
      [] key = "Marital Status" -> {"Unmarried", "Married"}
      [] key = "BMI Category" -> {"Overweight", "Normal"}
      [] key = "Smoking Status" -> {"Regular", "No Smoking"}
      [] key = "Employment Status" -> {"Salaried", "Freelancer"}
      [] key = "Insurance Plan" -> {"Gold", "Silver", "Platinum"}
      [] key = "Number of Dependants" -> {2}
      [] key = "Income in Lakhs" -> {10}
      [] key = "Genetical Risk" -> {3}
      [] key = "Notes" -> {"vip"}

Keys ==
    { "Age", "Medical History", "Gender", "Region", "Marital Status", "BMI Category",
      "Smoking Status", "Employment Status", "Insurance Plan", "Number of Dependants",
      "Income in Lakhs", "Genetical Risk", "Notes" }

\* a mapping with every key the encoder knows, all values recognized
Representative ==
    << <<"Age", AgeLimit + 1>>, <<"Number of Dependants", 2>>, <<"Income in Lakhs", 10>>,
       <<"Genetical Risk", 3>>, <<"Insurance Plan", "Gold">>, <<"Gender", "Male">>,
       <<"Region", "Southeast">>, <<"Marital Status", "Unmarried">>,
       <<"BMI Category", "Overweight">>, <<"Smoking Status", "Regular">>,
       <<"Employment Status", "Salaried">>,
       <<"Medical History", <<"Diabetes", Blank, Amp, Blank, "High Blood Pressure">> >> >>

\* the caller starts a new mapping, empty or the representative one
NewRequest(base) ==
    /\ pc = "ready"
    /\ input_dict' = base
    /\ edits' = 0
    /\ call' = <<>>
    /\ UNCHANGED <<fs, dirs, pc, artifacts, loads, loadCall, medical_history, risk>>

\* the caller runs input_dict[key] = value
SetKey(key, value) ==
    /\ pc = "ready"
    /\ call = <<>>
    /\ edits < MaxEdits
    /\ input_dict' = Store(input_dict, key, value)
    /\ input_dict' # input_dict
    /\ edits' = edits + 1
    /\ UNCHANGED <<fs, dirs, pc, artifacts, loads, loadCall, call, medical_history, risk>>

\* the caller runs del input_dict[key]
DelKey(key) ==
    /\ pc = "ready"
    /\ call = <<>>
    /\ edits < MaxEdits
    /\ HasKey(input_dict, key)
    /\ input_dict' = Remove(input_dict, key)
    /\ edits' = edits + 1
    /\ UNCHANGED <<fs, dirs, pc, artifacts, loads, loadCall, call, medical_history, risk>>

\* the caller runs predict(input_dict); predict is defined only once the
\* module body has run to its end
Predict(inf) ==
    LET r == predict(input_dict, artifacts, inf)
    IN  /\ pc = "ready"
        /\ inf \in (IF r.inferred THEN InferenceOutcomes(r.frame) ELSE {"returned"})
        /\ call' = <<[input |-> input_dict, outcome |-> r.outcome, key |-> r.key,
                      scaler |-> r.scaler, model |-> r.model, frame |-> r.frame,
                      inferred |-> r.inferred, again |-> call # <<>>]>>
        /\ UNCHANGED <<fs, dirs, pc, artifacts, loads, loadCall, input_dict, edits,
                       medical_history, risk>>

-----------------------------------------------------------------------------
(* The importing process: module body, then predict calls *)

\* what an artifact file may be when the process starts
FileStates(name) == {"absent", "corrupt"} \cup GoodContents(name)

Unloaded == [i \in {ArtifactNames[j] : j \in 1..Len(ArtifactNames)} |-> <<>>]

NoLoads == [i \in {ArtifactNames[j] : j \in 1..Len(ArtifactNames)} |-> 0]

Init ==
    /\ fs \in {f \in [ArtifactPaths -> UNION {FileStates(ArtifactNames[i]) : i \in 1..Len(ArtifactNames)}] :
                 \A i \in 1..Len(ArtifactNames) :
                     f[PathOf(ArtifactNames[i])] \in FileStates(ArtifactNames[i])}
    /\ dirs = {<<"artifacts">>}
    /\ pc = ArtifactNames[1]
    /\ artifacts = Unloaded
    /\ loads = NoLoads
    /\ loadCall = <<>>
    /\ input_dict = <<>>
    /\ edits = 0
    /\ call = <<>>
    /\ medical_history = <<>>
    /\ risk = <<>>

Next ==
    \/ \E i \in 1..Len(ArtifactNames) : LoadArtifact(i)
    \/ \E base \in {<<>>, Representative} : NewRequest(base)
    \/ \E key \in Keys : \E value \in ValuesOf(key) : SetKey(key, value)
    \/ \E key \in Keys : DelKey(key)
    \/ \E inf \in {"returned", "ValueError"} : Predict(inf)

Spec == Init /\ [][Next]_vars

-----------------------------------------------------------------------------
(* load_or_download called on its own, with and without a url *)

LoaderPaths ==
    { <<"artifacts", "model_young.joblib">>, <<"artifacts", "scaler_young.joblib">>,
      <<"model.joblib">>, <<"cache", "v1", "scaler.joblib">> }

Urls == {NoUrl, <<"">>, <<"https://host/artifact.joblib">>}

\* load_or_download(path, url), the network answering `net` if it is asked
CallLoader(path, url, net) ==
    LET r == LoadOrDownload(fs, dirs, path, url, net)
    IN  /\ pc = "loader"
        /\ fs' = r.fs
        /\ dirs' = r.dirs
        /\ loadCall' = <<[path |-> path, url |-> url, existed |-> Exists(fs, path),
                          steps |-> r.steps, outcome |-> r.outcome, names |-> r.names]>>
        /\ UNCHANGED <<pc, artifacts, loads, input_dict, edits, call, medical_history, risk>>

InitLoader ==
    /\ fs \in [LoaderPaths -> {"absent", "corrupt", "good"}]
    /\ dirs = UNION {MadeDirs(Dirname(p)) : p \in {q \in LoaderPaths : Exists(fs, q)}}
    /\ pc = "loader"
    /\ artifacts = Unloaded
    /\ loads = NoLoads
    /\ loadCall = <<>>
    /\ input_dict = <<>>
    /\ edits = 0
    /\ call = <<>>
    /\ medical_history = <<>>
    /\ risk = <<>>

NextLoader == \E path \in LoaderPaths : \E url \in Urls : \E net \in NetOutcomes :
                 CallLoader(path, url, net)

SpecLoader == InitLoader /\ [][NextLoader]_vars

-----------------------------------------------------------------------------
(* calculate_normalized_risk called on its own *)

RiskAtoms == {"Heart Disease", "diabetes", "Thyroid", "flu", Blank, Amp}

Samples ==
    { <<"no disease">>, <<"none">>, <<"No Disease">>, <<"None">>,
      <<"Diabetes", Blank, Amp, Blank, "High Blood Pressure">>,
      <<"Heart Disease", Blank, Amp, Blank, "Diabetes">>,
      <<"high blood pressure", Blank, Amp, Blank, "thyroid", Blank, Amp, Blank, "Diabetes">>,
      <<"unknown condition">> }

RiskStrings == Samples \cup UNION {[1..n -> RiskAtoms] : n \in 0..MaxLen}

\* risk = calculate_normalized_risk(medical_history)
Score ==
    /\ pc = "scorer"
    /\ risk = <<>>
    /\ risk' = <<calculate_normalized_risk(medical_history)>>
    /\ UNCHANGED <<fs, dirs, pc, artifacts, loads, loadCall, input_dict, edits, call,
                   medical_history>>

InitRisk ==
    /\ medical_history \in RiskStrings
    /\ risk = <<>>
    /\ pc = "scorer"
    /\ fs = [p \in ArtifactPaths |-> "absent"]
    /\ dirs = {}
    /\ artifacts = Unloaded
    /\ loads = NoLoads
    /\ loadCall = <<>>
    /\ input_dict = <<>>
    /\ edits = 0
    /\ call = <<>>

NextRisk == Score

SpecRisk == InitRisk /\ [][NextRisk]_vars

-----------------------------------------------------------------------------
(* Claims about calculate_normalized_risk, under SpecRisk *)

\* C3: for every medical-history string the returned score lies in [0,1],
\* i.e. the summed weight of its tokens is between 0 and 14.
C3_ScoreInUnitRange ==
    risk # <<>> => (0 <= risk[1].num /\ risk[1].num <= risk[1].den)

\* The tokens of a string, described without running the split: the places
\* where " & " stands, the ones among them a left-to-right scan cuts at (a
\* place is cut unless the cut two atoms before it already used its blank),
\* and for a token the range of atoms it spans.
DelimiterPlaces(s) ==
    {i \in 1..(Len(s) - 2) : s[i] = Blank /\ s[i + 1] = Amp /\ s[i + 2] = Blank}

Cuts(s) ==
    CHOOSE C \in SUBSET DelimiterPlaces(s) :
        \A i \in DelimiterPlaces(s) : (i \in C) <=> ((i - 2) \notin C)

TokenStarts(s) == {1} \cup {c + 3 : c \in Cuts(s)}

TokenEnd(s, a) ==
    LET later == {c \in Cuts(s) : c >= a}
    IN  IF later = {} THEN Len(s) ELSE (CHOOSE c \in later : \A d \in later : c <= d) - 1

\* the token that starts at a is, once trimmed, one of the words W
TokenIs(s, a, W) ==
    \E i \in a..TokenEnd(s, a) :
        /\ s[i] \in W
        /\ \A j \in (a..TokenEnd(s, a)) \ {i} : s[j] = Blank

CountOf(s, W) == Cardinality({a \in TokenStarts(s) : TokenIs(s, a, W)})

ExpectedTotal(s) ==
    6 * CountOf(s, {"diabetes", "Diabetes"})
    + 8 * CountOf(s, {"heart disease", "Heart Disease"})
    + 6 * CountOf(s, {"high blood pressure", "High Blood Pressure"})
    + 5 * CountOf(s, {"thyroid", "Thyroid"})

\* C4: the score is (sum of the weights of the trimmed, lower-cased tokens
\* between the " & " delimiters) / 14, with diabetes 6, heart disease 8, high
\* blood pressure 6, thyroid 5, anything else 0, a repeated token counted
\* each time; "Diabetes & High Blood Pressure" gives 12/14, "Heart Disease &
\* Heart Disease" 16/14 and "unknown condition" 0.
C4_ScoreIsWeightedSum ==
    risk # <<>> =>
        /\ risk[1] = [num |-> ExpectedTotal(medical_history), den |-> 14]
        /\ medical_history = <<"Diabetes", Blank, Amp, Blank, "High Blood Pressure">>
              => risk[1].num = 12
        /\ medical_history = <<"Heart Disease", Blank, Amp, Blank, "Heart Disease">>
              => risk[1].num = 16
        /\ medical_history = <<"unknown condition">> => risk[1].num = 0

\* a repeated, mixed-case token has been scored
C4_Witness ==
    /\ risk # <<>>
    /\ medical_history = <<"Heart Disease", Blank, Amp, Blank, "Heart Disease">>
    /\ risk[1].num = 16

-----------------------------------------------------------------------------
(* Claims about load_or_download, under SpecLoader *)

\* the call's url argument is a non-empty string
UrlGiven(c) == c.url # <<>> /\ c.url # <<"">>

FullSteps == <<"makedirs", "urlretrieve", "joblib.load">>

C5_Step ==
    LET c == loadCall'[1]
    IN  /\ c.existed =>
            /\ c.steps = <<"joblib.load">>
            /\ c.outcome \in {"returned", "DeserializationError"}
            /\ fs' = fs /\ dirs' = dirs
        /\ (~c.existed /\ UrlGiven(c)) =>
            /\ \E n \in 1..3 : c.steps = SubSeq(FullSteps, 1, n)
            /\ Len(c.steps) >= 2 => MadeDirs(Dirname(c.path)) \subseteq dirs'
            /\ Len(c.steps) = 3 <=> fs'[c.path] = RemoteContent(c.url)
            /\ Len(c.steps) < 3 =>
                  /\ c.outcome \in {"FileNotFoundError", "URLError", "ContentTooShortError"}
                  /\ c.names = <<>>
                  /\ fs'[c.path] \in {"absent", "partial"}
            /\ \A p \in LoaderPaths \ {c.path} : fs'[p] = fs[p]
        /\ (~c.existed /\ ~UrlGiven(c)) =>
            /\ c.steps = <<>>
            /\ c.outcome = "FileNotFoundError" /\ c.names = c.path
            /\ fs' = fs /\ dirs' = dirs

C10_Step ==
    /\ \A p \in LoaderPaths : fs[p] = "partial" => fs'[p] = "partial"
    /\ fs[loadCall'[1].path] = "partial" =>
          /\ loadCall'[1].existed
          /\ loadCall'[1].steps = <<"joblib.load">>
          /\ loadCall'[1].outcome = "DeserializationError"

\* C10: once a fetch has failed part-way and left an incomplete file at the
\* path, every later call for that path (with or without a url) finds it
\* existing, performs no fetch and fails with a deserialization error; the
\* incomplete file is never removed or replaced by the loader.
C10_PartialFileSticks == [][C10_Step]_vars

\* a call with a url on a path holding an incomplete file has failed to deserialize
C10_Witness ==
    /\ loadCall # <<>>
    /\ fs[loadCall[1].path] = "partial"
    /\ UrlGiven(loadCall[1])
    /\ loadCall[1].existed
    /\ loadCall[1].outcome = "DeserializationError"

-----------------------------------------------------------------------------
(* Claims about the importing process and predict, under Spec *)

\* the mapping of the last call holds both required keys
HasRequired(c) ==
    (\E i \in 1..Len(c.input) : c.input[i][1] = "Age")
    /\ (\E i \in 1..Len(c.input) : c.input[i][1] = "Medical History")

AgeOf(c) == c.input[CHOOSE i \in 1..Len(c.input) : c.input[i][1] = "Age"][2]

\* the scalers whose transform produced the cell of column `name`
ScaledBy(frame, name) ==
    frame[CHOOSE i \in 1..Len(frame) : frame[i][1] = name][2].scaled

\* C1: in every predict call the scaler bundle used for scaling and the
\* model used for inference belong to the same age band, chosen by
\* Age <= 25: young scaler and young model up to and including 25, rest
\* scaler and rest model from 26 on.
C1_SameBand ==
    (call # <<>> /\ call[1].inferred) =>
        LET c == call[1]
            band == IF AgeOf(c) <= 25 THEN "young" ELSE "rest"
        IN  /\ c.scaler = "scaler_" \o band
            /\ c.model = "model_" \o band
            /\ ScaledBy(c.frame, "age") = artifacts["scaler_" \o band]

\* a call with Age exactly 25 went through scaling and inference
C1_Witness ==
    /\ call # <<>>
    /\ call[1].inferred
    /\ AgeOf(call[1]) = 25
    /\ call[1].model = "model_young"

\* C2: for every mapping with Age and Medical History the returned vector
\* has exactly the 18 schema columns in schema order; a Region without a
\* region_ column adds no column and changes none.
C2_ExactlySchemaColumns ==
    (call # <<>> /\ HasRequired(call[1])) =>
        [i \in 1..Len(call[1].frame) |-> call[1].frame[i][1]] = expected_columns

\* C6: a mapping that lacks Medical History or lacks Age makes predict end
\* with the lookup error, and no model inference is invoked in that call,
\* whatever the other keys are.
C6_MissingKeyIsFatal ==
    (call # <<>> /\ ~HasRequired(call[1])) =>
        /\ call[1].outcome = "KeyError"
        /\ call[1].key \in {"Age", "Medical History"}
        /\ \A i \in 1..Len(call[1].input) : call[1].input[i][1] # call[1].key
        /\ ~call[1].inferred
        /\ call[1].model = ""

\* predict was called on a mapping that has every key but Age
C6_Witness ==
    /\ call # <<>>
    /\ Len(call[1].input) = Len(Representative) - 1
    /\ call[1].outcome = "KeyError"
    /\ call[1].key = "Age"

\* the one-hot keys and the prefix of their columns
OneHotPrefix(key) ==
    CASE key = "Gender" -> "gender_"
      [] key = "Region" -> "region_"
      [] key = "Marital Status" -> "marital_status_"
      [] key = "BMI Category" -> "bmi_category_"
      [] key = "Smoking Status" -> "smoking_status_"
      [] key = "Employment Status" -> "employment_status_"

OneHotKeys ==
    {"Gender", "Region", "Marital Status", "BMI Category", "Smoking Status",
     "Employment Status"}

\* the item is an extra key, or a one-hot key whose value has no column
Unrecognized(item) ==
    \/ item[1] = "Notes"
    \/ /\ item[1] \in OneHotKeys
       /\ \A i \in 1..Len(expected_columns) :
              expected_columns[i] # OneHotPrefix(item[1]) \o item[2]

SchemaPart(frame) ==
    [i \in 1..Len(expected_columns) |->
        frame[CHOOSE j \in 1..Len(frame) : frame[j][1] = expected_columns[i]]]

\* C7: for every mapping with an integer Age and a string Medical History,
\* predict reaches model inference and returns without an error, whatever
\* the category values and extra keys are; an unrecognized category value
\* or an extra key leaves each of the 18 schema columns at the value it has
\* without that key.
C7_NoErrorWhateverValues ==
    (call # <<>> /\ HasRequired(call[1])) =>
        /\ call[1].inferred
        /\ call[1].outcome = "returned"
        /\ \A i \in 1..Len(call[1].input) :
              Unrecognized(call[1].input[i]) =>
                  SchemaPart(call[1].frame) =
                      SchemaPart(preprocess_input(Remove(call[1].input, call[1].input[i][1]),
                                                  artifacts).frame)

AllNames == {ArtifactNames[i] : i \in 1..Len(ArtifactNames)}

C8_State ==
    /\ \A n \in AllNames : loads[n] <= 1
    /\ pc = "ready" => \A n \in AllNames : loads[n] = 1 /\ artifacts[n] # <<>>
    /\ call # <<>> => pc = "ready"
    /\ (loadCall # <<>> /\ loadCall[1].outcome # "returned") => pc = "aborted"
    /\ pc = "aborted" => (call = <<>> /\ \E n \in AllNames : artifacts[n] = <<>>)

C8_Step ==
    /\ pc = "aborted" => pc' = "aborted"
    /\ pc = "ready" => (artifacts' = artifacts /\ loads' = loads /\ fs' = fs /\ pc' = "ready")

\* C8: each of the four artifacts is loaded exactly once, during the module
\* body, and all four loads are complete before any predict call runs; if
\* one load fails the body aborts and no predict call is ever served; no
\* predict call loads, reloads or replaces an artifact.
C8_LoadedOnceBeforePredict == [](C8_State) /\ [][C8_Step]_vars

\* a predict call was served after the four loads
C8_Witness ==
    /\ call # <<>>
    /\ \A n \in AllNames : loads[n] = 1

C9_Step ==
    (call' # <<>> /\ call' # call) =>
        /\ input_dict' = input_dict
        /\ call'[1].input = input_dict
        /\ artifacts' = artifacts
        /\ call # <<>> =>
              (call'[1].input = call[1].input /\ call'[1].frame = call[1].frame)

=============================================================================
